---- MODULE Spec2Model ----
(***************************************************************************)
(* A model of the atomex crate: the three-outcome CAS result               *)
(* (cmpxch_result_.rs), the spin-retry engine of TrAtomicFlags             *)
(* (atomic_flags_.rs), the single-slot pointer AtomexPtr (atomex_ptr_.rs),  *)
(* the ordering policies (atomic_cell_.rs) and the counter AtomicCount     *)
(* (atomic_count_.rs).  One atomic cell is shared by NumThreads threads.   *)
(* Every access to the cell (a load or a weak compare-exchange) is one     *)
(* atomic step; the closures and the conversions of a call are local to    *)
(* the calling thread and are folded into the step of the access they      *)
(* follow: a call returns in the step of its last try_once.                *)
(*                                                                         *)
(* No operation reads the identity of its thread, so threads make their    *)
(* first calls in the order of their numbers.  The value a call returned   *)
(* stays in result[k] until thread k starts its next call.                 *)
(***************************************************************************)
EXTENDS Integers, Sequences, FiniteSets, TLC

\* ---------------------------------------------------------------- bounds
NumThreads == 2
\* number of distinct non-null pointers
MaxPtr == 2
\* calls made in one behaviour over all threads, plus spurious failures of the
\* weak CAS
MaxCalls == 3
\* largest value of the cell of the generic AtomicFlags instance
MaxFlag == 1
\* width in bits of the integer of the AtomicCount instance
CountBits == 2

Threads == 1..NumThreads
Null == 0
Ptrs == 1..MaxPtr
PtrValues == 0..MaxPtr
FlagValues == 0..MaxFlag
Values == PtrValues \cup FlagValues
\* the values of the integer type of the counter: 0 ..= V::MAX
CountModulus == 2 ^ CountBits
CountValues == 0..(CountModulus - 1)
\* the amounts given to add and sub: none and the largest (inc and dec give 1)
Amounts == {0, CountModulus - 1}

\* ------------------------------------------------------ ordering policies
Policies == {"StrictOrderings", "LocksOrderings"}

SUCC_ORDERING(o) == IF o = "StrictOrderings" THEN "SeqCst" ELSE "Acquire"
FAIL_ORDERING(o) == IF o = "StrictOrderings" THEN "SeqCst" ELSE "Relaxed"
LOAD_ORDERING(o) == IF o = "StrictOrderings" THEN "SeqCst" ELSE "Acquire"

\* a is at least as strong as b, in the order of core::sync::atomic::Ordering:
\* Relaxed below Acquire and Release, these below AcqRel, AcqRel below SeqCst
AtLeastAsStrong(a, b) ==
    \/ a = b
    \/ b = "Relaxed"
    \/ a = "SeqCst"
    \/ a = "AcqRel" /\ b \in {"Acquire", "Release"}

\* core::sync::atomic: a store panics when asked for Acquire or AcqRel
StorePanics(order) == order \in {"Acquire", "AcqRel"}

\* the accesses as the ghost `ords` records them
LoadAccess(order) == <<"load", order>>
StoreAccess(order) == <<"store", order>>
CasAccess(success, failure) == <<"compare_exchange_weak", success, failure>>

\* the ordering of the load of TrAtomicFlags::value
value_ordering(o) == LOAD_ORDERING(o)

\* the ordering of the load at the entry of try_spin
spin_load_ordering(o) == LOAD_ORDERING(o)

\* try_once giving the CAS the failure ordering twice
cas_orderings_fail_twice(o) == CasAccess(FAIL_ORDERING(o), FAIL_ORDERING(o))

\* the ordering AtomexPtr::store gives its store
store_ordering(o) == SUCC_ORDERING(o)

\* the orderings try_once gives its CAS
cas_orderings(o) == CasAccess(SUCC_ORDERING(o), FAIL_ORDERING(o))

\* ------------------------------------------------- CmpxchResult<T>, Result
\* (a record is always written with its fields in one order: tag, val; kind,
\* arg; val, cell, ok; cell, r, cas, desire)
Succ(t) == [tag |-> "Succ", val |-> t]
Fail(t) == [tag |-> "Fail", val |-> t]
Unexpected(t) == [tag |-> "Unexpected", val |-> t]
NoResult == [tag |-> "None", val |-> Null]

\* a plain value, as the counter's operations return it
Value(t) == [tag |-> "Value", val |-> t]

Ok(t) == [tag |-> "Ok", val |-> t]
Err(t) == [tag |-> "Err", val |-> t]

\* the narrowing taking Unexpected for a success
IntoResultUnexpectedOk(value) ==
    CASE value.tag = "Succ" -> Ok(value.val)
      [] value.tag = "Fail" -> Err(value.val)
      [] value.tag = "Unexpected" -> Ok(value.val)

\* impl From<CmpxchResult<T>> for Result<T, T>
IntoResult(value) ==
    CASE value.tag = "Succ" -> Ok(value.val)
      [] value.tag = "Fail" -> Err(value.val)
      [] value.tag = "Unexpected" -> Err(value.val)

\* NonNull::new_unchecked(p): the set of outcomes.  On a null p the call is
\* undefined behaviour and any pointer value may come out.
op_ptr_to_non_null(p) == IF p # Null THEN {p} ELSE PtrValues

\* ------------------------------------------------------------- the calls
NoCall == [kind |-> "none", arg |-> Null]
CallInit(p) == [kind |-> "try_spin_init", arg |-> p]
CallReset == [kind |-> "try_reset", arg |-> Null]
CallCmpReset(p) == [kind |-> "try_spin_compare_and_reset", arg |-> p]
CallSpin == [kind |-> "try_spin_compare_exchange_weak", arg |-> Null]
CallOnce(cur) == [kind |-> "try_once_compare_exchange_weak", arg |-> cur]
CallStore(p) == [kind |-> "store", arg |-> p]
CallAdd(amount) == [kind |-> "add", arg |-> amount]
CallSub(amount) == [kind |-> "sub", arg |-> amount]
CallVal == [kind |-> "val", arg |-> Null]
CallValue == [kind |-> "value", arg |-> Null]

VARIABLES
    cell,       \* the value stored in the atomic cell
    fnExpect,   \* the predicate given to the generic engine: the accepted values
    fnDesire,   \* the transform given to the generic engine: a function on values
    pc,         \* pc[k]: thread k is "idle" (has made no call), "spin" (inside the
                \* loop of try_spin), "done" (its call has returned) or "panicked"
                \* (its call panicked)
    call,       \* call[k]: the operation and argument of the call of thread k
    current,    \* current[k]: the local variable `current` of that call
    hist,       \* hist[k]: the results of the try_once calls of that call, in order
    result,     \* result[k]: the value that call returned
    seen,       \* seen[k]: the values the cell has held since the call's first access
    ncas,       \* ncas[k]: compare-exchange instructions the call has issued
    ndesire,    \* ndesire[k]: evaluations of the transform by the call
    owners,     \* try_spin_init calls that returned Ok since the last release
                \* that returned Ok
    balance,    \* the initial occupancy of the slot, plus the try_spin_init
                \* calls that returned Ok, minus the try_reset and
                \* try_spin_compare_and_reset calls that returned Ok
    overlapped, \* TRUE once a call has started while another was running
    spurious,   \* spurious failures so far
    ncalls,     \* calls started so far
    policy,     \* the type parameter O of the instance
    ords,       \* ords[k]: the loads and compare-exchanges the call has issued,
                \* with their orderings
    count0,     \* the value the counter was created with
    added,      \* the sum of the amounts of the fetch_add so far
    subbed      \* the sum of the amounts of the fetch_sub so far

vars == <<cell, fnExpect, fnDesire, pc, call, current, hist, result, seen,
          ncas, ndesire, owners, balance, overlapped, spurious, ncalls, policy,
          ords, count0, added, subbed>>

\* ------------------------------------------------ predicates, transforms
\* expect_not_null accepting the null pointer too
expect_any_pointer(p) == TRUE

\* try_reset
expect_not_null(p) == p # Null

\* desire_ptr_null handing its input back
desire_ptr_unchanged(p) == p

desire_ptr_null(p) == Null

\* Expect with try_spin_init accepting an occupied slot
ExpectClaimsAlways(c, x) ==
    CASE c.kind = "try_reset" -> x # Null
      [] c.kind = "try_spin_compare_and_reset" -> x = c.arg
      [] c.kind = "try_spin_init" -> TRUE
      [] OTHER -> x \in fnExpect

\* Expect with the conditional release testing for non-null only
ExpectReleasesBlindly(c, x) ==
    CASE c.kind \in {"try_reset", "try_spin_compare_and_reset"} -> x # Null
      [] c.kind = "try_spin_init" -> x = Null
      [] OTHER -> x \in fnExpect

\* the closure `expect` of the running call c, applied to x
Expect(c, x) ==
    CASE c.kind = "try_reset" -> expect_not_null(x)
      [] c.kind = "try_spin_compare_and_reset" -> x = c.arg
      [] c.kind = "try_spin_init" -> x = Null
      [] OTHER -> x \in fnExpect

\* the closure `desire` of the running call c, applied to x
Desire(c, x) ==
    CASE c.kind = "try_reset" -> desire_ptr_null(x)
      [] c.kind = "try_spin_compare_and_reset" -> Null
      [] c.kind = "try_spin_init" -> c.arg
      [] OTHER -> fnDesire[x]

\* -------------------------------------------------------- the atomic cell
\* compare_exchange_weak returning the value it stored
cas_returns_new(v, cur, desired, fails) ==
    IF v = cur /\ ~fails
    THEN [val |-> desired, cell |-> desired, ok |-> TRUE]
    ELSE [val |-> v, cell |-> v, ok |-> FALSE]

\* compare_exchange_weak storing without comparing
cas_without_compare(v, cur, desired, fails) ==
    [val |-> v, cell |-> desired, ok |-> TRUE]

\* TrAtomicCell::compare_exchange_weak on a cell holding v.  fails: the weak
\* CAS fails although the comparison succeeds.  The Ok value and the Err value
\* are both the value the cell held, as core::sync::atomic defines them.
compare_exchange_weak(v, cur, desired, fails) ==
    IF v = cur /\ ~fails
    THEN [val |-> v, cell |-> desired, ok |-> TRUE]
    ELSE [val |-> v, cell |-> v, ok |-> FALSE]

\* fetch_add stopping at the maximum
fetch_add_saturating(v, amount) ==
    [val |-> v, cell |-> IF v + amount >= CountModulus THEN CountModulus - 1 ELSE v + amount]

\* fetch_add returning the sum
fetch_add_returns_new(v, amount) ==
    [val |-> (v + amount) % CountModulus, cell |-> (v + amount) % CountModulus]

\* fetch::Add::fetch_add on a cell holding v: wraps around on overflow and
\* returns the previous value
fetch_add(v, amount) == [val |-> v, cell |-> (v + amount) % CountModulus]

\* fetch_sub adding
fetch_sub_adds(v, amount) == [val |-> v, cell |-> (v + amount) % CountModulus]

\* fetch::Sub::fetch_sub on a cell holding v: wraps around on overflow and
\* returns the previous value
fetch_sub(v, amount) == [val |-> v, cell |-> (v + CountModulus - amount) % CountModulus]

\* try_once wrapping the desired value into Succ
try_once_returns_desired(v, cur, c, fails) ==
    IF ~Expect(c, cur)
    THEN [cell |-> v, r |-> Unexpected(cur), cas |-> 0, desire |-> 0]
    ELSE LET desired == Desire(c, cur)
             x == compare_exchange_weak(v, cur, desired, fails)
         IN  [cell |-> x.cell,
              r |-> IF x.ok THEN Succ(desired) ELSE Fail(x.val),
              cas |-> 1, desire |-> 1]

\* try_once issuing the CAS before it tests the predicate
try_once_cas_first(v, cur, c, fails) ==
    LET desired == Desire(c, cur)
        x == compare_exchange_weak(v, cur, desired, fails)
    IN  IF ~Expect(c, cur)
        THEN [cell |-> x.cell, r |-> Unexpected(cur), cas |-> 1, desire |-> 1]
        ELSE [cell |-> x.cell,
              r |-> IF x.ok THEN Succ(x.val) ELSE Fail(x.val),
              cas |-> 1, desire |-> 1]

\* try_once wrapping its comparand into Fail
try_once_fail_returns_current(v, cur, c, fails) ==
    IF ~Expect(c, cur)
    THEN [cell |-> v, r |-> Unexpected(cur), cas |-> 0, desire |-> 0]
    ELSE LET desired == Desire(c, cur)
             x == compare_exchange_weak(v, cur, desired, fails)
         IN  [cell |-> x.cell,
              r |-> IF x.ok THEN Succ(x.val) ELSE Fail(cur),
              cas |-> 1, desire |-> 1]

\* TrAtomicFlags::try_once_compare_exchange_weak on a cell holding v
try_once_compare_exchange_weak(v, cur, c, fails) ==
    IF ~Expect(c, cur)
    THEN [cell |-> v, r |-> Unexpected(cur), cas |-> 0, desire |-> 0]
    ELSE LET desired == Desire(c, cur)
             x == compare_exchange_weak(v, cur, desired, fails)
         IN  [cell |-> x.cell,
              r |-> IF x.ok THEN Succ(x.val) ELSE Fail(x.val),
              cas |-> 1, desire |-> 1]

\* the loop of try_spin giving up after one try_once
SpinNeverContinues(r) == FALSE

\* the loop of try_spin: it goes on exactly on CmpxchResult::Fail
SpinContinues(r) == r.tag = "Fail"

\* the loop retrying with the value it already had
NextCurrentStale(cur, r) == cur

\* `current = x` on Fail(x): the value the next try_once is given
NextCurrent(cur, r) == r.val

\* The values call c may return when the engine's result is r.  The pointer
\* operations narrow r to a Result and map one side through new_unchecked; the
\* generic engine returns r itself.
Returned(c, r) ==
    CASE c.kind = "try_spin_init" ->
            LET b == IntoResult(r) IN
            IF b.tag = "Err" THEN {Err(x) : x \in op_ptr_to_non_null(b.val)}
            ELSE {b}
      [] c.kind \in {"try_reset", "try_spin_compare_and_reset"} ->
            LET b == IntoResult(r) IN
            IF b.tag = "Ok" THEN {Ok(x) : x \in op_ptr_to_non_null(b.val)}
            ELSE {b}
      [] OTHER -> {r}

\* ghost: the owners count after call c returned ret
OwnersAfter(c, ret) ==
    IF ret.tag # "Ok" THEN owners
    ELSE CASE c.kind = "try_spin_init" -> owners + 1
           [] c.kind \in {"try_reset", "try_spin_compare_and_reset"} -> 0
           [] OTHER -> owners

\* ghost: the balance after call c returned ret
BalanceAfter(c, ret) ==
    IF ret.tag # "Ok" THEN balance
    ELSE CASE c.kind = "try_spin_init" -> balance + 1
           [] c.kind \in {"try_reset", "try_spin_compare_and_reset"} -> balance - 1
           [] OTHER -> balance

\* ghost: seen after thread k moved the cell to v
SeenAfter(k, v) ==
    [u \in Threads |->
        IF v # cell /\ (u = k \/ pc[u] = "spin") THEN seen[u] \cup {v} ELSE seen[u]]

\* ------------------------------------------------------------------ Init
InitLocals ==
    /\ pc = [k \in Threads |-> "idle"]
    /\ call = [k \in Threads |-> NoCall]
    /\ current = [k \in Threads |-> Null]
    /\ hist = [k \in Threads |-> <<>>]
    /\ result = [k \in Threads |-> NoResult]
    /\ seen = [k \in Threads |-> {}]
    /\ ncas = [t \in Threads |-> 0]
    /\ ndesire = [t \in Threads |-> 0]
    /\ owners = 0
    /\ overlapped = FALSE
    /\ spurious = 0
    /\ ncalls = 0
    /\ ords = [k \in Threads |-> {}]
    /\ added = 0
    /\ subbed = 0

\* AtomexPtr::new over an AtomicPtr that is null or already holds a pointer,
\* with the default policy O = StrictOrderings
Init ==
    /\ cell \in PtrValues
    /\ policy = "StrictOrderings"
    /\ count0 = 0
    /\ fnExpect = {}
    /\ fnDesire = [x \in FlagValues |-> x]
    /\ balance = IF cell # Null THEN 1 ELSE 0
    /\ InitLocals

\* the transforms given to the generic engine: the constant ones, the
\* identity and the wrapping increment
Transforms ==
    {[x \in FlagValues |-> c] : c \in FlagValues}
        \cup {[x \in FlagValues |-> x], [x \in FlagValues |-> (x + 1) % (MaxFlag + 1)]}

\* AtomicFlags::new over a cell, used with one predicate and one transform,
\* with the default policy O = StrictOrderings
InitFlags ==
    /\ cell \in FlagValues
    /\ policy = "StrictOrderings"
    /\ count0 = 0
    /\ fnExpect \in SUBSET FlagValues
    /\ fnDesire \in Transforms
    /\ balance = 0
    /\ InitLocals

\* --------------------------------------------------------------- actions
\* ghost: a call of thread k starting now overlaps a running call
Overlaps(k) == \E j \in Threads : j # k /\ pc[j] = "spin"

\* thread k may start a call: it is between two calls, or it is the lowest
\* thread that has made none
CanCall(k) ==
    /\ ncalls + spurious < MaxCalls
    /\ \/ pc[k] = "done"
       \/ pc[k] = "idle" /\ \A j \in Threads : j < k => pc[j] # "idle"

\* entry of try_spin_compare_exchange_weak: `current = atomic.load(..)`
Load(k, c) ==
    /\ CanCall(k)
    /\ ncalls' = ncalls + 1
    /\ call' = [call EXCEPT ![k] = c]
    /\ current' = [current EXCEPT ![k] = cell]
    /\ hist' = [hist EXCEPT ![k] = <<>>]
    /\ result' = [result EXCEPT ![k] = NoResult]
    /\ seen' = [seen EXCEPT ![k] = {cell}]
    /\ ncas' = [ncas EXCEPT ![k] = 0]
    /\ ndesire' = [ndesire EXCEPT ![k] = 0]
    /\ overlapped' = (overlapped \/ Overlaps(k))
    /\ pc' = [pc EXCEPT ![k] = "spin"]
    /\ ords' = [ords EXCEPT ![k] = {LoadAccess(spin_load_ordering(policy))}]
    /\ UNCHANGED <<cell, fnExpect, fnDesire, owners, balance, spurious, policy, count0,
                   added, subbed>>

try_spin_init(k, init) == Load(k, CallInit(init))

try_reset(k) == Load(k, CallReset)

try_spin_compare_and_reset(k, p) == Load(k, CallCmpReset(p))

try_spin(k) == Load(k, CallSpin)

\* the weak CAS may fail spuriously only where it would have succeeded (and
\* while the behaviour's bound allows another event)
MayFail(c, cur) == Expect(c, cur) /\ cell = cur /\ ncalls + spurious < MaxCalls

\* one iteration of the loop of try_spin: one try_once, then `current = x` on
\* Fail(x) and `break r` otherwise
Iterate(k) ==
    /\ pc[k] = "spin"
    /\ \E fails \in BOOLEAN :
        /\ fails => MayFail(call[k], current[k])
        /\ LET o == try_once_compare_exchange_weak(cell, current[k], call[k], fails) IN
            /\ cell' = o.cell
            /\ ncas' = [ncas EXCEPT ![k] = @ + o.cas]
            /\ ndesire' = [ndesire EXCEPT ![k] = @ + o.desire]
            /\ spurious' = IF fails THEN spurious + 1 ELSE spurious
            /\ hist' = [hist EXCEPT ![k] = Append(@, o.r)]
            /\ seen' = SeenAfter(k, o.cell)
            /\ ords' = [ords EXCEPT ![k] =
                            IF o.cas = 1 THEN @ \cup {cas_orderings(policy)} ELSE @]
            /\ IF SpinContinues(o.r)
               THEN /\ current' = [current EXCEPT ![k] = NextCurrent(@, o.r)]
                    /\ UNCHANGED <<pc, result, owners, balance>>
               ELSE /\ pc' = [pc EXCEPT ![k] = "done"]
                    /\ \E v \in Returned(call[k], o.r) :
                          /\ result' = [result EXCEPT ![k] = v]
                          /\ owners' = OwnersAfter(call[k], v)
                          /\ balance' = BalanceAfter(call[k], v)
                    /\ UNCHANGED current
    /\ UNCHANGED <<fnExpect, fnDesire, call, overlapped, ncalls, policy, count0,
                   added, subbed>>

\* AtomicFlags::try_once_compare_exchange_weak called with a value cur the
\* caller read earlier
try_once(k, cur) ==
    /\ CanCall(k)
    /\ ncalls' = ncalls + 1
    /\ \E fails \in BOOLEAN :
        /\ fails => MayFail(CallOnce(cur), cur)
        /\ LET o == try_once_compare_exchange_weak(cell, cur, CallOnce(cur), fails) IN
            /\ cell' = o.cell
            /\ ncas' = [ncas EXCEPT ![k] = o.cas]
            /\ ndesire' = [ndesire EXCEPT ![k] = o.desire]
            /\ spurious' = IF fails THEN spurious + 1 ELSE spurious
            /\ hist' = [hist EXCEPT ![k] = <<o.r>>]
            /\ result' = [result EXCEPT ![k] = o.r]
            /\ seen' = [SeenAfter(k, o.cell) EXCEPT ![k] = {cell, o.cell}]
            /\ ords' = [ords EXCEPT ![k] =
                            IF o.cas = 1 THEN {cas_orderings(policy)} ELSE {}]
    /\ call' = [call EXCEPT ![k] = CallOnce(cur)]
    /\ current' = [current EXCEPT ![k] = cur]
    /\ overlapped' = (overlapped \/ Overlaps(k))
    /\ pc' = [pc EXCEPT ![k] = "done"]
    /\ UNCHANGED <<fnExpect, fnDesire, owners, balance, policy, count0, added, subbed>>

\* AtomexPtr::store(p): one store with the policy's success ordering
store(k, p) ==
    /\ CanCall(k)
    /\ ncalls' = ncalls + 1
    /\ call' = [call EXCEPT ![k] = CallStore(p)]
    /\ ords' = [ords EXCEPT ![k] = {StoreAccess(store_ordering(policy))}]
    /\ IF StorePanics(store_ordering(policy))
       THEN /\ pc' = [pc EXCEPT ![k] = "panicked"]
            /\ cell' = cell
       ELSE /\ pc' = [pc EXCEPT ![k] = "done"]
            /\ cell' = p
    /\ seen' = [SeenAfter(k, cell') EXCEPT ![k] = {cell'}]
    /\ hist' = [hist EXCEPT ![k] = <<>>]
    /\ result' = [result EXCEPT ![k] = NoResult]
    /\ ncas' = [ncas EXCEPT ![k] = 0]
    /\ ndesire' = [ndesire EXCEPT ![k] = 0]
    /\ overlapped' = (overlapped \/ Overlaps(k))
    /\ UNCHANGED <<fnExpect, fnDesire, current, owners, balance, spurious, policy, count0,
                   added, subbed>>

\* a call of the counter by thread k: one atomic access o with ordering order
CountCall(k, c, o, access, order) ==
    /\ CanCall(k)
    /\ ncalls' = ncalls + 1
    /\ call' = [call EXCEPT ![k] = c]
    /\ cell' = o.cell
    /\ result' = [result EXCEPT ![k] = Value(o.val)]
    /\ pc' = [pc EXCEPT ![k] = "done"]
    /\ ords' = [ords EXCEPT ![k] = {<<access, order>>}]
    /\ seen' = [SeenAfter(k, o.cell) EXCEPT ![k] = {cell, o.cell}]
    /\ hist' = [hist EXCEPT ![k] = <<>>]
    /\ ncas' = [ncas EXCEPT ![k] = 0]
    /\ ndesire' = [ndesire EXCEPT ![k] = 0]
    /\ overlapped' = (overlapped \/ Overlaps(k))
    /\ UNCHANGED <<fnExpect, fnDesire, current, owners, balance, spurious, policy, count0>>

\* AtomicCount::add(val)
add(k, amount) ==
    /\ CountCall(k, CallAdd(amount), fetch_add(cell, amount), "fetch_add", "Acquire")
    /\ added' = added + amount
    /\ UNCHANGED subbed

\* AtomicCount::inc(): add(V::ONE)
inc(k) == add(k, 1)

\* AtomicCount::sub(val)
sub(k, amount) ==
    /\ CountCall(k, CallSub(amount), fetch_sub(cell, amount), "fetch_sub", "Release")
    /\ subbed' = subbed + amount
    /\ UNCHANGED added

\* AtomicCount::dec(): sub(V::ONE)
dec(k) == sub(k, 1)

\* AtomicCount::val()
val(k) ==
    /\ CountCall(k, CallVal, [val |-> cell, cell |-> cell], "load", "Relaxed")
    /\ UNCHANGED <<added, subbed>>

\* TrAtomicFlags::value(): one load with the policy's load ordering
value(k) ==
    /\ CanCall(k)
    /\ ncalls' = ncalls + 1
    /\ call' = [call EXCEPT ![k] = CallValue]
    /\ result' = [result EXCEPT ![k] = Value(cell)]
    /\ pc' = [pc EXCEPT ![k] = "done"]
    /\ ords' = [ords EXCEPT ![k] = {LoadAccess(value_ordering(policy))}]
    /\ seen' = [seen EXCEPT ![k] = {cell}]
    /\ hist' = [hist EXCEPT ![k] = <<>>]
    /\ ncas' = [ncas EXCEPT ![k] = 0]
    /\ ndesire' = [ndesire EXCEPT ![k] = 0]
    /\ overlapped' = (overlapped \/ Overlaps(k))
    /\ UNCHANGED <<cell, fnExpect, fnDesire, current, owners, balance, spurious, policy,
                   count0, added, subbed>>

\* the pointer slot under try_spin_init, try_reset, try_spin_compare_and_reset
Next ==
    \/ \E k \in Threads, p \in Ptrs : try_spin_init(k, p)
    \/ \E k \in Threads : try_reset(k)
    \/ \E k \in Threads, p \in Ptrs : try_spin_compare_and_reset(k, p)
    \/ \E k \in Threads : Iterate(k)

Spec == Init /\ [][Next]_vars

\* AtomexPtr::new over an AtomicPtr that is null or holds a pointer (the
\* operations treat all non-null pointers alike: pointer 1)
InitFair ==
    /\ Init
    /\ cell \in {Null, 1}

\* every thread inside a call goes on running it
SpecFair == InitFair /\ [][Next]_vars /\ \A k \in Threads : WF_vars(Iterate(k))

\* AtomexPtr::new with either policy, over an AtomicPtr that is null or holds
\* a pointer (pointer 1: no operation tells one non-null pointer from another
\* but by equality)
InitStore ==
    /\ cell \in {Null, 1}
    /\ policy \in Policies
    /\ count0 = 0
    /\ fnExpect = {}
    /\ fnDesire = [x \in FlagValues |-> x]
    /\ balance = IF cell # Null THEN 1 ELSE 0
    /\ InitLocals

\* the pointer slot under all its operations that write
NextStore ==
    \/ Next
    \/ \E k \in Threads, p \in PtrValues : store(k, p)

SpecStore == InitStore /\ [][NextStore]_vars

\* AtomicCount::new over a cell holding any value (AtomicCount takes no policy)
InitCount ==
    /\ cell \in CountValues
    /\ policy = "StrictOrderings"
    /\ count0 = cell
    /\ fnExpect = {}
    /\ fnDesire = [x \in FlagValues |-> x]
    /\ balance = 0
    /\ InitLocals

\* the counter under inc, dec, add, sub and val
NextCount ==
    \/ \E k \in Threads : inc(k)
    \/ \E k \in Threads : dec(k)
    \/ \E k \in Threads, amount \in Amounts : add(k, amount)
    \/ \E k \in Threads, amount \in Amounts : sub(k, amount)
    \/ \E k \in Threads : val(k)

SpecCount == InitCount /\ [][NextCount]_vars

\* the generic engine of AtomicFlags under try_spin and try_once
NextFlags ==
    \/ \E k \in Threads : try_spin(k)
    \/ \E k \in Threads, cur \in FlagValues : try_once(k, cur)
    \/ \E k \in Threads : Iterate(k)

SpecFlags == InitFlags /\ [][NextFlags]_vars

\* AtomicFlags::new with either policy
InitPolicies ==
    /\ cell \in FlagValues
    /\ policy \in Policies
    /\ count0 = 0
    /\ fnExpect \in SUBSET FlagValues
    /\ fnDesire \in Transforms
    /\ balance = 0
    /\ InitLocals

\* the generic engine under value, try_spin and try_once
NextPolicies ==
    \/ NextFlags
    \/ \E k \in Threads : value(k)

SpecPolicies == InitPolicies /\ [][NextPolicies]_vars

\* every thread inside try_spin goes on running it
SpecFlagsFair == SpecFlags /\ \A k \in Threads : WF_vars(Iterate(k))

\* ------------------------------------------------------------ properties
Last(q) == q[Len(q)]

\* thread k takes this step, as one iteration of the loop of try_spin
Iterates(k) == pc[k] = "spin" /\ hist'[k] # hist[k]

IsDone(k, kind) == pc[k] = "done" /\ call[k].kind = kind

\* the try_once calls of the call of thread k that returned Fail
Fails(k) == Cardinality({i \in 1..Len(hist[k]) : hist[k][i].tag = "Fail"})

\* C1: mutual exclusion of ownership.  Between two consecutive releases that
\* return Ok, and before the first one, at most one try_spin_init returns Ok,
\* however the calls of the threads interleave.
C1_MutualExclusion == owners <= 1

\* a release returned Ok(v) and a later claim of another pointer returned Ok
C1_Witness ==
    /\ owners = 1
    /\ \E k, j \in Threads :
        /\ IsDone(k, "try_spin_init") /\ result[k].tag = "Ok"
        /\ IsDone(j, "try_reset") /\ result[j].tag = "Ok"
        /\ result[j].val # call[k].arg
        /\ cell = call[k].arg

\* C2: try_spin_compare_and_reset(p) changes the cell only from p to null, in
\* every interleaving; an iteration that fails or that rejects leaves the cell
\* alone, and an Err it returns carries a value other than p.
C2_NeverVacatesOther ==
    [][\A k \in Threads :
        (Iterates(k) /\ call[k].kind = "try_spin_compare_and_reset") =>
            /\ cell' # cell => (cell = call[k].arg /\ cell' = Null)
            /\ (pc'[k] = "done" /\ result'[k].tag = "Err") =>
                  (cell' = cell /\ result'[k].val # call[k].arg)]_vars

\* the slot held p at the load, was released and claimed again with y, and the
\* conditional release of p returned Err(y) with the slot still holding y
C2_Witness ==
    \E k \in Threads :
        /\ IsDone(k, "try_spin_compare_and_reset")
        /\ Len(hist[k]) = 2
        /\ hist[k][1].tag = "Fail"
        /\ result[k].tag = "Err"
        /\ result[k].val \notin {Null, call[k].arg}
        /\ {Null, call[k].arg} \subseteq seen[k]
        /\ cell = result[k].val

\* C3: try_spin never returns Fail.  What it returns is the result of the last
\* try_once of the call, Succ or Unexpected, and every try_once before it
\* returned Fail.
C3_SpinNeverReturnsFail ==
    \A k \in Threads :
        IsDone(k, "try_spin_compare_exchange_weak") =>
            /\ result[k].tag \in {"Succ", "Unexpected"}
            /\ Len(hist[k]) >= 1
            /\ result[k] = Last(hist[k])
            /\ \A i \in 1..(Len(hist[k]) - 1) : hist[k][i].tag = "Fail"

\* a try_spin that lost a race, retried and succeeded
C3_Witness ==
    \E k \in Threads :
        /\ IsDone(k, "try_spin_compare_exchange_weak")
        /\ Len(hist[k]) >= 2
        /\ hist[k][1].tag = "Fail" /\ hist[k][1].val # Last(hist[k]).val
        /\ result[k].tag = "Succ"

\* C4: a try_once whose predicate rejects current returns Unexpected(current)
\* and has issued no CAS, evaluated no transform and left the cell as it was.
C4_RejectedTouchesNothing ==
    \A k \in Threads :
        (IsDone(k, "try_once_compare_exchange_weak") /\ call[k].arg \notin fnExpect) =>
            /\ result[k] = Unexpected(call[k].arg)
            /\ ncas[k] = 0
            /\ ndesire[k] = 0
            /\ Cardinality(seen[k]) = 1

\* a rejected try_once on a value the cell holds, with a transform that would
\* have changed it
C4_Witness ==
    \E k \in Threads :
        /\ IsDone(k, "try_once_compare_exchange_weak")
        /\ call[k].arg \notin fnExpect
        /\ call[k].arg = cell
        /\ fnDesire[cell] # cell

\* C5: round trip.  On an empty slot and with no other call running or in
\* between, try_spin_init(p) followed by try_reset() leaves the slot null, and
\* try_reset returns Ok(p).
C5_RoundTrip ==
    \A k, j \in Threads :
        ( /\ k < j /\ ncalls = 2 /\ ~overlapped
          /\ IsDone(k, "try_spin_init") /\ Null \in seen[k]
          /\ IsDone(j, "try_reset") ) =>
            /\ result[k].tag = "Ok"
            /\ result[j] = Ok(call[k].arg)
            /\ cell = Null

\* the round trip has run, the claim having met one spurious failure
C5_Witness ==
    \E k, j \in Threads :
        /\ k < j /\ ncalls = 2 /\ ~overlapped
        /\ IsDone(k, "try_spin_init") /\ Null \in seen[k] /\ Len(hist[k]) = 2
        /\ IsDone(j, "try_reset") /\ result[j].tag = "Ok"

\* C6: claim race.  The slot starts empty and two threads call try_spin_init
\* with different pointers, no release taking place: exactly one returns Ok,
\* the other returns Err carrying the winner's pointer, and the slot holds the
\* winner's pointer.
C6_ClaimRace ==
    \A a, b \in Threads :
        ( /\ a < b /\ ncalls = 2
          /\ IsDone(a, "try_spin_init") /\ IsDone(b, "try_spin_init")
          /\ call[a].arg # call[b].arg
          /\ Null \in seen[a] ) =>
            \E w, l \in {a, b} :
                /\ w # l
                /\ result[w].tag = "Ok"
                /\ result[l] = Err(call[w].arg)
                /\ cell = call[w].arg

\* the two claims overlapped, and the thread that loaded first lost after a
\* failed CAS
C6_Witness ==
    \E a, b \in Threads :
        /\ a < b /\ ncalls = 2 /\ overlapped
        /\ IsDone(a, "try_spin_init") /\ IsDone(b, "try_spin_init")
        /\ call[a].arg # call[b].arg
        /\ result[b].tag = "Ok"
        /\ result[a].tag = "Err"
        /\ Len(hist[a]) = 2 /\ ncas[a] = 1

\* C7: try_spin_init(p) returns Ok exactly when its last try_once issued a CAS
\* on a null slot, and that CAS stored p; otherwise it returns Err with a
\* non-null pointer the slot held during the call, and no step of the call
\* other than the successful CAS changes the slot.
C7_ClaimContract ==
    [][\A k \in Threads :
        (Iterates(k) /\ call[k].kind = "try_spin_init") =>
            LET returns == pc'[k] = "done"
                didCas == ncas'[k] = ncas[k] + 1
            IN  /\ returns => (result'[k].tag = "Ok" <=> (didCas /\ cell = Null))
                /\ (returns /\ result'[k].tag = "Ok") => cell' = call[k].arg
                /\ (returns /\ result'[k].tag = "Err") =>
                      /\ result'[k].val # Null
                      /\ result'[k].val \in seen[k]
                      /\ cell' = cell
                /\ ~returns => cell' = cell]_vars

\* a claim that returned Err with a pointer installed after its load
C7_Witness ==
    \E k \in Threads :
        /\ IsDone(k, "try_spin_init")
        /\ result[k].tag = "Err"
        /\ hist[k] = <<Fail(result[k].val), Unexpected(result[k].val)>>
        /\ Null \in seen[k]

\* C8: try_reset() returns Ok exactly when its last try_once issued a CAS on a
\* non-null slot; the Ok value is the pointer that CAS replaced by null.  On a
\* slot observed empty it returns Err(null), and no step of the call other than
\* the successful CAS changes the slot.
C8_ReleaseContract ==
    [][\A k \in Threads :
        (Iterates(k) /\ call[k].kind = "try_reset") =>
            LET returns == pc'[k] = "done"
                didCas == ncas'[k] = ncas[k] + 1
            IN  /\ returns => (result'[k].tag = "Ok" <=> (didCas /\ cell # Null))
                /\ (returns /\ result'[k].tag = "Ok") =>
                      (result'[k].val = cell /\ cell' = Null)
                /\ (returns /\ result'[k].tag = "Err") =>
                      /\ result'[k].val = Null
                      /\ current[k] = Null
                      /\ cell' = cell
                /\ ~returns => cell' = cell]_vars

\* a release that freed an owner installed after its load, and one that found
\* the slot empty
C8_Witness ==
    \E k, j \in Threads :
        /\ IsDone(k, "try_reset") /\ result[k].tag = "Ok"
        /\ Len(hist[k]) = 2 /\ hist[k][1] = Fail(result[k].val)
        /\ IsDone(j, "try_reset") /\ result[j] = Err(Null)

\* C9 as the specification words it: a try_spin_init(p) that returns Ok
\* carries p, the pointer now stored.
C9_OkCarriesNew ==
    \A k \in Threads :
        (IsDone(k, "try_spin_init") /\ result[k].tag = "Ok") => result[k].val = call[k].arg

\* C9: a try_spin_init(p) that returns Ok carries the previous value of the
\* slot, which is null; p is the pointer its CAS stored.
C9_OkCarriesPrevious ==
    \A k \in Threads :
        (IsDone(k, "try_spin_init") /\ result[k].tag = "Ok") =>
            (result[k] = Ok(Null) /\ call[k].arg \in seen[k])

\* a claim of an empty slot returned Ok and the slot holds its pointer
C9_Witness ==
    \E k \in Threads :
        /\ IsDone(k, "try_spin_init") /\ result[k].tag = "Ok"
        /\ cell = call[k].arg
        /\ seen[k] = {Null, call[k].arg}

\* the value the try_once or the last try_once of a returned call was given
CurrentOf(k) ==
    IF call[k].kind = "try_once_compare_exchange_weak" THEN call[k].arg ELSE current[k]

\* C10 as the specification words it: a try_once whose CAS succeeds returns
\* Succ(transform(current)).
C10_SuccCarriesDesired ==
    \A k \in Threads :
        (pc[k] = "done" /\ result[k].tag = "Succ") =>
            result[k].val = fnDesire[CurrentOf(k)]

\* C10: a try_once whose CAS succeeds returns Succ(current), the value the CAS
\* replaced; transform(current) is the value the CAS stored.
C10_SuccCarriesPrevious ==
    \A k \in Threads :
        (pc[k] = "done" /\ result[k].tag = "Succ") =>
            /\ result[k].val = CurrentOf(k)
            /\ fnDesire[CurrentOf(k)] \in seen[k]
            /\ call[k].kind = "try_once_compare_exchange_weak" =>
                  seen[k] = {call[k].arg, fnDesire[call[k].arg]}

\* a try_once succeeded with a transform that changed the value
C10_Witness ==
    \E k \in Threads :
        /\ IsDone(k, "try_once_compare_exchange_weak")
        /\ result[k].tag = "Succ"
        /\ fnDesire[call[k].arg] # call[k].arg
        /\ cell = fnDesire[call[k].arg]

\* C11 as the specification words it: no operation panics under either policy,
\* and a store(p) that has returned has left p in the slot.
C11_Total ==
    \A k \in Threads :
        /\ pc[k] # "panicked"
        /\ IsDone(k, "store") => call[k].arg \in seen[k]

\* C12: termination of try_spin_init, try_reset and try_spin_compare_and_reset.
\* With finitely many calls and finitely many spurious failures, a call meets
\* no more failed CAS than there are other calls (each changes the slot at most
\* once) and spurious failures, and under weak fairness of every thread every
\* call returns: from some state on no call is running.
C12_Termination ==
    /\ [](\A k \in Threads : pc[k] # "idle" => Fails(k) <= (ncalls - 1) + spurious)
    /\ <>[](\A k \in Threads : pc[k] # "spin")

\* a claim that returned after a spurious failure and a lost race
C12_Witness ==
    \E k \in Threads :
        /\ IsDone(k, "try_spin_init")
        /\ Len(hist[k]) = 3
        /\ hist[k][1] = Fail(Null)
        /\ hist[k][2].tag = "Fail" /\ hist[k][2].val # Null
        /\ spurious = 1

\* C13: lock-freedom of try_spin.  A call that retries holds the value the
\* cell has at that instant, so that only a later change of the cell or a
\* spurious failure makes it retry again; and under weak fairness of every
\* thread, whenever calls are running calls return until none is running: no
\* state is reached from which the running calls retry for ever or from which
\* no thread can take a step.
C13_LockFree ==
    /\ [][\A k \in Threads :
            (Iterates(k) /\ pc'[k] = "spin") => (cell' = cell /\ current'[k] = cell')]_vars
    /\ []<>(\A k \in Threads : pc[k] # "spin")

\* a call is retrying on a value another call, which has returned Succ, stored
C13_Witness ==
    \E k, j \in Threads :
        /\ pc[k] = "spin" /\ Len(hist[k]) >= 1
        /\ IsDone(j, "try_spin_compare_exchange_weak") /\ result[j].tag = "Succ"
        /\ result[j].val # cell
        /\ current[k] = cell
        /\ hist[k][1] = Fail(cell)

\* C14: no lost update.  Whatever the order of the inc, dec, add and sub calls
\* of the threads, after every call the counter holds its initial value plus
\* the amounts added minus the amounts subtracted, modulo 2^w; from 0, as many
\* inc as dec leave 0.
C14_NoLostUpdate ==
    /\ cell = (count0 + added + MaxCalls * CountModulus - subbed) % CountModulus
    /\ (count0 = 0 /\ added = subbed) => cell = 0

\* from 0, an inc and a dec by different threads, the dec first, and a val
C14_Witness ==
    \E k, j \in Threads :
        /\ k # j /\ count0 = 0 /\ ncalls = 3
        /\ IsDone(k, "val") /\ result[k] = Value(0)
        /\ IsDone(j, "add") /\ call[j].arg = 1 /\ result[j] = Value(CountModulus - 1)
        /\ added = 1 /\ subbed = 1

\* this step is a call of the counter by thread k
CountStepBy(k) ==
    /\ ncalls' = ncalls + 1
    /\ pc'[k] = "done"
    /\ \A j \in Threads \ {k} :
          call'[j] = call[j] /\ result'[j] = result[j] /\ pc'[j] = pc[j]

\* C15: inc/add and dec/sub return the value the counter held immediately
\* before, and change the counter by exactly the given amount in that one step
\* (val returns the value and changes nothing); on a counter at 0, inc()
\* returns 0, the dec() after it returns 1, and the counter is 0 again.
C15_FetchReturnsPrevious ==
    /\ [][ncalls' = ncalls + 1 =>
            \E k \in Threads :
                /\ CountStepBy(k)
                /\ result'[k] = Value(cell)
                /\ call'[k].kind = "add" => cell' = (cell + call'[k].arg) % CountModulus
                /\ call'[k].kind = "sub" =>
                      cell' = (cell + CountModulus - call'[k].arg) % CountModulus
                /\ call'[k].kind = "val" => cell' = cell]_vars
    /\ [](\A k, j \in Threads :
            ( /\ count0 = 0 /\ ncalls = 2
              /\ IsDone(k, "add") /\ call[k].arg = 1 /\ result[k] = Value(0)
              /\ IsDone(j, "sub") /\ call[j].arg = 1 ) =>
                (result[j] = Value(1) /\ cell = 0))

\* on a counter at 0: inc() returned 0, then dec() returned 1, then val()
\* returned 0
C15_Witness ==
    \E k, j \in Threads :
        /\ count0 = 0 /\ ncalls = 3 /\ added = 1 /\ subbed = 1
        /\ IsDone(j, "sub") /\ call[j].arg = 1 /\ result[j] = Value(1)
        /\ IsDone(k, "val") /\ result[k] = Value(0)

\* C16 as the specification words it: the counter saturates.  An inc/add that
\* would pass the maximum leaves the maximum, a dec/sub that would pass 0
\* leaves 0.
C16_Saturating ==
    [][ncalls' = ncalls + 1 =>
        \E k \in Threads :
            /\ CountStepBy(k)
            /\ (call'[k].kind = "add" /\ cell + call'[k].arg >= CountModulus) =>
                  cell' = CountModulus - 1
            /\ (call'[k].kind = "sub" /\ cell < call'[k].arg) => cell' = 0]_vars

\* C16: the counter wraps around.  An inc/add that passes the maximum goes on
\* from 0 and a dec/sub that passes 0 goes on from the maximum: inc() at the
\* maximum leaves 0 and dec() at 0 leaves the maximum.
C16_Wrapping ==
    [][ncalls' = ncalls + 1 =>
        \E k \in Threads :
            /\ CountStepBy(k)
            /\ (call'[k].kind = "add" /\ cell + call'[k].arg >= CountModulus) =>
                  cell' = cell + call'[k].arg - CountModulus
            /\ (call'[k].kind = "sub" /\ cell < call'[k].arg) =>
                  cell' = cell + CountModulus - call'[k].arg]_vars

\* inc() at the maximum returned the maximum, then dec() at 0 returned 0 and
\* left the maximum
C16_Witness ==
    \E k, j \in Threads :
        /\ count0 = CountModulus - 1 /\ ncalls = 2
        /\ IsDone(k, "add") /\ call[k].arg = 1 /\ result[k] = Value(CountModulus - 1)
        /\ IsDone(j, "sub") /\ call[j].arg = 1 /\ result[j] = Value(0)
        /\ cell = CountModulus - 1

\* C17: the ordering policies.  The success ordering of a policy is at least as
\* strong as its failure ordering; StrictOrderings is (SeqCst, SeqCst, SeqCst)
\* and LocksOrderings is (Acquire, Relaxed, Acquire) for (success, failure,
\* load); the load of value() and of try_spin is issued with the policy's load
\* ordering and every CAS of try_once with the policy's success and failure
\* orderings.
C17_PolicyInvariant ==
    /\ AtLeastAsStrong(SUCC_ORDERING(policy), FAIL_ORDERING(policy))
    /\ policy = "StrictOrderings" =>
          <<SUCC_ORDERING(policy), FAIL_ORDERING(policy), LOAD_ORDERING(policy)>>
              = <<"SeqCst", "SeqCst", "SeqCst">>
    /\ policy = "LocksOrderings" =>
          <<SUCC_ORDERING(policy), FAIL_ORDERING(policy), LOAD_ORDERING(policy)>>
              = <<"Acquire", "Relaxed", "Acquire">>
    /\ \A k \in Threads :
        /\ \A a \in ords[k] :
              /\ a[1] \in {"load", "compare_exchange_weak"}
              /\ a[1] = "load" => a = <<"load", LOAD_ORDERING(policy)>>
              /\ a[1] = "compare_exchange_weak" =>
                    a = <<"compare_exchange_weak", SUCC_ORDERING(policy),
                          FAIL_ORDERING(policy)>>
        /\ call[k].kind \in {"value", "try_spin_compare_exchange_weak"} =>
              \E a \in ords[k] : a[1] = "load"
        /\ ncas[k] >= 1 <=> \E a \in ords[k] : a[1] = "compare_exchange_weak"

\* under LocksOrderings: a try_spin that loaded and issued a CAS, and a value()
C17_Witness ==
    \E k, j \in Threads :
        /\ policy = "LocksOrderings"
        /\ IsDone(k, "try_spin_compare_exchange_weak")
        /\ ords[k] = {<<"load", "Acquire">>,
                      <<"compare_exchange_weak", "Acquire", "Relaxed">>}
        /\ IsDone(j, "value")
        /\ ords[j] = {<<"load", "Acquire">>}

\* C18 as the specification words it: a try_once that returns Fail(actual),
\* alone or as an iteration of try_spin, was given a current that differs from
\* actual.
C18_FailMeansChanged ==
    /\ [][\A k \in Threads :
            (Iterates(k) /\ Last(hist'[k]).tag = "Fail") =>
                Last(hist'[k]).val # current[k]]_vars
    /\ [](\A k \in Threads :
            (IsDone(k, "try_once_compare_exchange_weak") /\ result[k].tag = "Fail") =>
                result[k].val # call[k].arg)

\* C18: a try_once that returns Fail(actual) leaves the cell unchanged and
\* actual is the value the cell holds.  Either actual differs from current, and
\* inside try_spin the cell has then been changed by another thread since
\* current was read from it; or actual equals current and the weak CAS failed
\* spuriously, no thread having changed anything.
C18_FailChangedOrSpurious ==
    /\ [][\A k \in Threads :
            (Iterates(k) /\ Last(hist'[k]).tag = "Fail") =>
                LET actual == Last(hist'[k]).val IN
                /\ actual = cell /\ cell' = cell
                /\ actual # current[k] =>
                      /\ spurious' = spurious
                      /\ {current[k], actual} \subseteq seen[k]
                      /\ \A i \in 1..Len(hist[k]) : hist[k][i].tag = "Fail"
                /\ actual = current[k] => spurious' = spurious + 1]_vars
    /\ [](\A k \in Threads :
            (IsDone(k, "try_once_compare_exchange_weak") /\ result[k].tag = "Fail") =>
                /\ seen[k] = {result[k].val}
                /\ result[k].val = call[k].arg => spurious >= 1)

\* a try_spin whose first CAS failed spuriously, returning the value it was
\* given, and whose second CAS lost a race
C18_Witness ==
    \E k, j \in Threads :
        /\ IsDone(k, "try_spin_compare_exchange_weak")
        /\ Len(hist[k]) = 3 /\ spurious = 1 /\ ncalls = 2
        /\ hist[k][1].tag = "Fail" /\ hist[k][2].tag = "Fail"
        /\ hist[k][2].val # hist[k][1].val
        /\ pc[j] = "done" /\ Len(hist[j]) = 1

\* C19: inside try_spin the predicate, the transform and the CAS are given only
\* values the cell held during the call.  The first is the value loaded at the
\* entry; each later one is the value the failed CAS just before returned; and
\* a Succ or an Unexpected carries the very value the iteration was given, the
\* one the predicate accepted or rejected.
C19_OnlyObservedValues ==
    \A k \in Threads :
        (pc[k] # "idle" /\ call[k].kind = "try_spin_compare_exchange_weak") =>
            /\ current[k] \in seen[k]
            /\ \A i \in 1..Len(hist[k]) : hist[k][i].val \in seen[k]
            /\ \A i \in 2..Len(hist[k]) :
                  /\ hist[k][i - 1].tag = "Fail"
                  /\ hist[k][i].tag # "Fail" => hist[k][i].val = hist[k][i - 1].val
            /\ (pc[k] = "spin" /\ hist[k] # <<>>) => current[k] = Last(hist[k]).val
            /\ pc[k] = "done" =>
                  /\ result[k].val = current[k]
                  /\ result[k].tag = "Succ" <=> current[k] \in fnExpect
                  /\ result[k].tag = "Succ" => fnDesire[current[k]] \in seen[k]
            /\ ndesire[k] = ncas[k]

\* a try_spin that loaded one value, lost a race, and had its predicate reject
\* the value the failed CAS returned
C19_Witness ==
    \E k \in Threads :
        /\ IsDone(k, "try_spin_compare_exchange_weak")
        /\ Len(hist[k]) = 2
        /\ result[k].tag = "Unexpected"
        /\ hist[k][1] = Fail(result[k].val)
        /\ seen[k] # {result[k].val}

\* C20: a try_once given a stale snapshot (the predicate accepts current, the
\* cell holds another value) returns Fail(actual), actual being the value of
\* the cell, and leaves the cell alone; a try_once that returns Fail or
\* Unexpected has not modified the cell, and one that returns Succ has issued
\* one CAS, which replaced current by transform(current).
C20_StaleSnapshot ==
    \A k \in Threads :
        IsDone(k, "try_once_compare_exchange_weak") =>
            /\ (call[k].arg \in fnExpect /\ call[k].arg \notin seen[k]) =>
                  (result[k].tag = "Fail" /\ seen[k] = {result[k].val})
            /\ result[k].tag \in {"Fail", "Unexpected"} => Cardinality(seen[k]) = 1
            /\ result[k].tag = "Fail" => (result[k].val \in seen[k] /\ ncas[k] = 1)
            /\ result[k].tag = "Succ" =>
                  /\ ncas[k] = 1
                  /\ seen[k] = {call[k].arg, fnDesire[call[k].arg]}

\* a try_once on a stale snapshot whose transform would have changed the cell
C20_Witness ==
    \E k \in Threads :
        /\ IsDone(k, "try_once_compare_exchange_weak")
        /\ call[k].arg \in fnExpect
        /\ call[k].arg # cell
        /\ result[k] = Fail(cell)
        /\ fnDesire[call[k].arg] # cell
        /\ spurious = 0

\* C21: a spurious failure of the weak CAS is a retry, never a rejection.  A
\* try_spin that no other call overlaps returns what one try_once with a
\* strong CAS returns on the value it loaded, and leaves the cell where that
\* try_once leaves it, however many of its CASes failed spuriously: each
\* failure returned Fail(loaded value) and was followed by another iteration.
\* So when the predicate accepts the loaded value (try_claim on a slot that
\* stays null) the narrowed result is Ok and not Err.
C21_SpuriousIsRetry ==
    \A k \in Threads :
        (IsDone(k, "try_spin_compare_exchange_weak") /\ ~overlapped) =>
            LET v == hist[k][1].val
                o == try_once_compare_exchange_weak(v, v, call[k], FALSE)
            IN  /\ result[k] = o.r
                /\ seen[k] = {v, o.cell}
                /\ \A i \in 1..(Len(hist[k]) - 1) : hist[k][i] = Fail(v)
                /\ ncas[k] = Fails(k) + o.cas
                /\ v \in fnExpect => IntoResult(result[k]) = Ok(v)

\* a try_spin alone on the cell whose CAS failed spuriously twice and then
\* replaced the value
C21_Witness ==
    \E k \in Threads :
        /\ IsDone(k, "try_spin_compare_exchange_weak")
        /\ ~overlapped
        /\ Fails(k) = 2
        /\ spurious = 2
        /\ result[k].tag = "Succ"
        /\ cell = fnDesire[result[k].val]
        /\ cell # result[k].val

\* thread k takes this step, as a call of store that completes
Stores(k) ==
    /\ ncalls' = ncalls + 1
    /\ call'[k].kind = "store"
    /\ pc'[k] = "done"
    /\ \A j \in Threads \ {k} : pc'[j] = pc[j] /\ call'[j] = call[j]

\* thread k takes this step, as an iteration whose CAS replaces a value its
\* predicate accepted by the transform of that value
Replaces(k) ==
    /\ Iterates(k)
    /\ Expect(call[k], cell)
    /\ current[k] = cell
    /\ cell' = Desire(call[k], cell)

Narrowing == {"try_spin_init", "try_reset", "try_spin_compare_and_reset"}

\* C23: the narrowing maps Succ(t) to Ok(t) and Fail(t) and Unexpected(t) to
\* Err(t), keeping the value.  try_spin never ends on Fail, so a try_spin_init,
\* try_reset or try_spin_compare_and_reset that returned Err(x) ended on
\* Unexpected(x): x is the value it observed last and its predicate rejects x,
\* whatever races it lost before; one that returned Ok(x) ended on Succ(x).
C23_ErrMeansRejected ==
    /\ \A t \in PtrValues :
        /\ IntoResult(Succ(t)) = Ok(t)
        /\ IntoResult(Fail(t)) = Err(t)
        /\ IntoResult(Unexpected(t)) = Err(t)
    /\ \A k \in Threads :
        (pc[k] = "done" /\ call[k].kind \in Narrowing) =>
            LET r == Last(hist[k]) IN
            /\ r.tag \in {"Succ", "Unexpected"}
            /\ result[k].val = r.val
            /\ result[k].tag = "Ok" <=> r.tag = "Succ"
            /\ result[k].tag = "Err" <=> r.tag = "Unexpected"
            /\ result[k].tag = "Err" =>
                  /\ ~Expect(call[k], result[k].val)
                  /\ current[k] = result[k].val
                  /\ result[k].val \in seen[k]

\* a try_reset that lost the race against another release and then had its
\* predicate reject the null it observed: the Err carries that null
C23_Witness ==
    \E k \in Threads :
        /\ IsDone(k, "try_reset")
        /\ result[k] = Err(Null)
        /\ hist[k] = <<Fail(Null), Unexpected(Null)>>
        /\ ncas[k] = 1
        /\ spurious = 0

\* C24: NonNull::new_unchecked is never applied to null, under every
\* interleaving and with spurious CAS failures.  The value of the Succ that
\* ends a try_reset or a try_spin_compare_and_reset, and the value of the
\* Unexpected that ends a try_spin_init, are non-null, so the Ok of the two
\* releases and the Err of the claim carry that non-null value; the Ok of
\* try_spin_compare_and_reset(p) carries p.
C24_NeverNullUnchecked ==
    \A k \in Threads :
        LET r == Last(hist[k]) IN
        /\ (pc[k] = "done" /\ call[k].kind \in {"try_reset", "try_spin_compare_and_reset"}
                /\ r.tag = "Succ") =>
              /\ r.val # Null
              /\ result[k] = Ok(r.val)
              /\ call[k].kind = "try_spin_compare_and_reset" => result[k].val = call[k].arg
        /\ (IsDone(k, "try_spin_init") /\ r.tag = "Unexpected") =>
              /\ r.val # Null
              /\ result[k] = Err(r.val)
        /\ (pc[k] = "done" /\ call[k].kind \in {"try_reset", "try_spin_compare_and_reset"}
                /\ result[k].tag = "Ok") => result[k].val # Null
        /\ (IsDone(k, "try_spin_init") /\ result[k].tag = "Err") => result[k].val # Null

\* a claim refused with the occupant as its Err, and a conditional release of
\* that occupant that returned it as its Ok after a spurious CAS failure
C24_Witness ==
    \E k, j \in Threads :
        /\ IsDone(j, "try_spin_init") /\ result[j].tag = "Err"
        /\ result[j].val # Null
        /\ IsDone(k, "try_spin_compare_and_reset")
        /\ result[k] = Ok(result[j].val)
        /\ Fails(k) = 1 /\ spurious = 1
        /\ cell = Null

\* C25: ownership balance.  With only try_spin_init, try_reset and
\* try_spin_compare_and_reset acting on the slot, the initial occupancy plus
\* the claims that returned Ok minus the releases, conditional or not, that
\* returned Ok is 1 while the slot is non-null and 0 while it is null, in every
\* reachable state.  So the releases that returned Ok never outnumber the
\* occupants: of two releases racing for one pointer at most one returns it.
C25_OwnershipBalance ==
    /\ balance = IF cell # Null THEN 1 ELSE 0
    /\ \A k, j \in Threads :
        (/\ k # j /\ ncalls = 2 /\ overlapped
         /\ pc[k] = "done" /\ pc[j] = "done"
         /\ {call[k].kind, call[j].kind}
                \subseteq {"try_reset", "try_spin_compare_and_reset"}) =>
            ~(result[k].tag = "Ok" /\ result[j].tag = "Ok")

\* two releases raced for the pointer the slot was created with: one returned
\* it, and the one that lost its CAS returned Err(null)
C25_Witness ==
    \E k, j \in Threads :
        /\ ncalls = 2 /\ overlapped /\ spurious = 0
        /\ IsDone(k, "try_reset") /\ IsDone(j, "try_spin_compare_and_reset")
        /\ result[j] = Ok(call[j].arg)
        /\ result[k] = Err(Null)
        /\ ncas[k] = 1
        /\ balance = 0
        /\ cell = Null

\* the try_once calls of the call of thread k whose CAS failed on a value the
\* predicate of the call accepts: the spurious failures
SpuriousFails(k) ==
    Cardinality({i \in 1..Len(hist[k]) :
                    hist[k][i].tag = "Fail" /\ Expect(call[k], hist[k][i].val)})

\* C26: bounded retry of the claim and of the conditional release.  With no
\* spurious failure, a try_spin_init or a try_spin_compare_and_reset issues at
\* most one CAS and runs at most two iterations, whatever the other threads
\* do: the value its failed CAS returned is one its predicate rejects, so the
\* second iteration ends the call on Unexpected of that value.  With spurious
\* failures, each CAS beyond the first follows a spurious failure.
C26_BoundedRetry ==
    \A k \in Threads :
        (pc[k] \in {"spin", "done"}
            /\ call[k].kind \in {"try_spin_init", "try_spin_compare_and_reset"}) =>
            /\ ncas[k] <= 1 + SpuriousFails(k)
            /\ Len(hist[k]) <= 2 + SpuriousFails(k)
            /\ spurious = 0 =>
                  /\ ncas[k] <= 1
                  /\ Len(hist[k]) <= 2
                  /\ (hist[k] # <<>> /\ hist[k][1].tag = "Fail") =>
                        /\ ~Expect(call[k], hist[k][1].val)
                        /\ current[k] = hist[k][1].val
                  /\ Len(hist[k]) = 2 =>
                        hist[k] = <<Fail(current[k]), Unexpected(current[k])>>

\* with no spurious failure: a conditional release loaded its pointer, lost
\* its only CAS after the slot was released and claimed again, and ended on
\* the new occupant in its second iteration
C26_Witness ==
    \E k \in Threads :
        /\ IsDone(k, "try_spin_compare_and_reset")
        /\ spurious = 0 /\ ncalls = MaxCalls
        /\ ncas[k] = 1
        /\ Len(hist[k]) = 2
        /\ result[k].tag = "Err"
        /\ result[k].val \notin {Null, call[k].arg}
        /\ cell = result[k].val

====
